---- MODULE Spec2Model ----
(***************************************************************************)
(* Model of cmd/agent.go of honeytrap-agent: the command-line application  *)
(* built by New, its Before hook loadConfig, its Action serve, the         *)
(* listener goroutine serve starts, and the signals the operating system   *)
(* delivers to the process.                                                *)
(***************************************************************************)
EXTENDS Naturals, Sequences, FiniteSets

VARIABLES
    pc,          \* position of the primary flow
    exit,        \* how the process ended: NoExit while it is alive
    err,         \* the error the startup returned, NoError if none
    args,        \* the command line: for every flag, Unset or the value given
    store,       \* the flag set of the cli.Context (c.String / c.Set)
    fileState,   \* what loadConfig did with the config file
    config,      \* the struct loadConfig decodes the file into
    options,     \* serve's local slice of server.OptionFn
    newCalls,    \* the option sequences server.New has been called with
    ctx,         \* the cancellation context
    runCalls,    \* the contexts' states srvr.Run has been entered with
    runResult,   \* what srvr.Run returned (discarded by serve)
    lpc,         \* position of the listener goroutine
    s,           \* the listener's buffered channel of os.Signal
    notified,    \* signals registered with signal.Notify
    sigSent,     \* number of signals delivered to the process
    cancelCalls, \* number of calls of cancel()
    accessed     \* what the latest step read or wrote: the store, the file

vars == <<pc, exit, err, args, store, fileState, config, options, newCalls,
          ctx, runCalls, runResult, lpc, s, notified, sigSent, cancelCalls,
          accessed>>

(***************************************************************************)
(* Bounds of the model.                                                    *)
(***************************************************************************)
MaxSignals == 3

\* Values a flag may be given on the command line, and values a field of the
\* config file may hold (a field the file omits decodes to "").
FlagValues == {"", "a"}
FileValues == {"", "a", "b"}
ConfigPaths == {"agent.toml"}

Unset == "<unset>"
NoError == "<nil>"
NoExit == "<alive>"

(***************************************************************************)
(* New: the flags of the application and their default values.             *)
(***************************************************************************)
Settings == {"server", "remote-key", "data", "name"}
FlagNames == Settings \cup {"config"}

DataDefault == "~/.honeytrap-agent"

FlagDefaults ==
    [f \in FlagNames |-> IF f = "data" THEN DataDefault ELSE ""]

\* Capacity of the channel made by the listener: make(chan os.Signal, 1).
ChanCap == 1

Signals == {"SIGINT", "SIGTERM"}

(***************************************************************************)
(* Error messages.                                                         *)
(***************************************************************************)
ErrNoServer == "No target server set."
ErrNoKey == "No remote key set."
ErrNoName == "No name set."
ErrNoData == "No data dir set."
ErrDataDir == "WithDataDir error"
ErrNew == "server.New error"
ErrOpen == "Could not open config file"
ErrParse == "Could not parse config file"

(***************************************************************************)
(* The flag set: parsing the command line, c.String / c.GlobalString and   *)
(* c.Set.                                                                  *)
(***************************************************************************)
CommandLines ==
    { a \in [FlagNames -> {Unset} \cup FlagValues \cup ConfigPaths] :
        /\ a["config"] \in {Unset} \cup ConfigPaths
        /\ \A f \in Settings : a[f] \in {Unset} \cup FlagValues }

ParsedFlags(a) ==
    [f \in FlagNames |-> IF a[f] = Unset THEN FlagDefaults[f] ELSE a[f]]

String(st, name) == st[name]

Set(st, name, value) == [st EXCEPT ![name] = value]

(***************************************************************************)
(* loadConfig                                                              *)
(***************************************************************************)
ConfigRecords ==
    [Server : FileValues, RemoteKey : FileValues,
     DataDir : FileValues, Name : FileValues]

ZeroConfig == [Server |-> "", RemoteKey |-> "", DataDir |-> "", Name |-> ""]

\* What os.Open and toml.DecodeReader do with the file at the config path:
\* whether the open fails, whether the decode fails, and the struct as the
\* decoder leaves it (on a failed decode, whatever it had filled in so far).
FileSystems ==
    [openErr : BOOLEAN, parseErr : BOOLEAN, decoded : ConfigRecords]

\* Variant: the values of data-dir and name set under each other's name.
ApplyConfig_swapped(st, cfg) ==
    Set(Set(Set(Set(st, "server", cfg.Server),
                "remote-key", cfg.RemoteKey),
            "data", cfg.Name),
        "name", cfg.DataDir)

\* Variant: a field the file leaves empty keeps the flag's value.
ApplyConfig_nonEmptyOnly(st, cfg) ==
    LET keep(name, value) == IF value = "" THEN st[name] ELSE value IN
    [st EXCEPT !["server"] = keep("server", cfg.Server),
               !["remote-key"] = keep("remote-key", cfg.RemoteKey),
               !["data"] = keep("data", cfg.DataDir),
               !["name"] = keep("name", cfg.Name)]

\* Lines 133-136: the four unconditional c.Set calls.
ApplyConfig(st, cfg) ==
    Set(Set(Set(Set(st, "server", cfg.Server),
                "remote-key", cfg.RemoteKey),
            "data", cfg.DataDir),
        "name", cfg.Name)

\* Variant: no early return for the empty path.
loadConfigResult_noEmptyCheck(st, fs) ==
    IF fs.openErr
    THEN [err |-> ErrOpen, store |-> st, config |-> ZeroConfig,
          file |-> "openfailed"]
    ELSE IF fs.parseErr
    THEN [err |-> ErrParse, store |-> st, config |-> fs.decoded,
          file |-> "parsefailed"]
    ELSE [err |-> NoError, store |-> ApplyConfig(st, fs.decoded),
          config |-> fs.decoded, file |-> "decoded"]

\* Variant: the store is written before the decode error is looked at.
loadConfigResult_setBeforeCheck(st, fs) ==
    LET path == String(st, "config") IN
    IF path = ""
    THEN [err |-> NoError, store |-> st, config |-> ZeroConfig,
          file |-> "unopened"]
    ELSE IF fs.openErr
    THEN [err |-> ErrOpen, store |-> st, config |-> ZeroConfig,
          file |-> "openfailed"]
    ELSE IF fs.parseErr
    THEN [err |-> ErrParse, store |-> ApplyConfig(st, fs.decoded),
          config |-> fs.decoded, file |-> "parsefailed"]
    ELSE [err |-> NoError, store |-> ApplyConfig(st, fs.decoded),
          config |-> fs.decoded, file |-> "decoded"]

\* Lines 106-139. fs: what the file system and the decoder answer.
loadConfigResult(st, fs) ==
    LET path == String(st, "config") IN
    IF path = ""
    THEN [err |-> NoError, store |-> st, config |-> ZeroConfig,
          file |-> "unopened"]
    ELSE IF fs.openErr
    THEN [err |-> ErrOpen, store |-> st, config |-> ZeroConfig,
          file |-> "openfailed"]
    ELSE IF fs.parseErr
    THEN [err |-> ErrParse, store |-> st, config |-> fs.decoded,
          file |-> "parsefailed"]
    ELSE [err |-> NoError, store |-> ApplyConfig(st, fs.decoded),
          config |-> fs.decoded, file |-> "decoded"]

(***************************************************************************)
(* serve, lines 48-78: validation and assembly of the options.             *)
(***************************************************************************)
Option(fn, arg) == [fn |-> fn, arg |-> arg]

WithServer(v) == Option("WithServer", v)
WithKey(v) == Option("WithKey", v)
WithName(v) == Option("WithName", v)
WithDataDir(v) == Option("WithDataDir", v)
WithToken == Option("WithToken", "")

\* Variant: the name is checked before the remote key.
serveOptions_nameFirst(st, dirErr) ==
    LET v == String(st, "server")
        key == String(st, "remote-key")
        name == String(st, "name")
        d == String(st, "data")
        o1 == <<WithServer(v)>>
        o2 == Append(o1, WithName(name))
        o3 == Append(o2, WithKey(key))
        o4 == Append(o3, WithDataDir(d))
        o5 == Append(o4, WithToken)
    IN  IF v = "" THEN [err |-> ErrNoServer, options |-> <<>>]
        ELSE IF name = "" THEN [err |-> ErrNoName, options |-> o1]
        ELSE IF key = "" THEN [err |-> ErrNoKey, options |-> o2]
        ELSE IF d = "" THEN [err |-> ErrNoData, options |-> o3]
        ELSE IF dirErr THEN [err |-> ErrDataDir, options |-> o3]
        ELSE [err |-> NoError, options |-> o5]

\* Variant: the data directory is not checked for the empty string.
serveOptions_noDataCheck(st, dirErr) ==
    LET v == String(st, "server")
        key == String(st, "remote-key")
        name == String(st, "name")
        d == String(st, "data")
        o1 == <<WithServer(v)>>
        o2 == Append(o1, WithKey(key))
        o3 == Append(o2, WithName(name))
        o4 == Append(o3, WithDataDir(d))
        o5 == Append(o4, WithToken)
    IN  IF v = "" THEN [err |-> ErrNoServer, options |-> <<>>]
        ELSE IF key = "" THEN [err |-> ErrNoKey, options |-> o1]
        ELSE IF name = "" THEN [err |-> ErrNoName, options |-> o2]
        ELSE IF dirErr THEN [err |-> ErrDataDir, options |-> o3]
        ELSE [err |-> NoError, options |-> o5]

\* Variant: the token option is not appended.
serveOptions_noToken(st, dirErr) ==
    LET v == String(st, "server")
        key == String(st, "remote-key")
        name == String(st, "name")
        d == String(st, "data")
        o1 == <<WithServer(v)>>
        o2 == Append(o1, WithKey(key))
        o3 == Append(o2, WithName(name))
        o4 == Append(o3, WithDataDir(d))
    IN  IF v = "" THEN [err |-> ErrNoServer, options |-> <<>>]
        ELSE IF key = "" THEN [err |-> ErrNoKey, options |-> o1]
        ELSE IF name = "" THEN [err |-> ErrNoName, options |-> o2]
        ELSE IF d = "" THEN [err |-> ErrNoData, options |-> o3]
        ELSE IF dirErr THEN [err |-> ErrDataDir, options |-> o3]
        ELSE [err |-> NoError, options |-> o4]

\* Lines 48-78. dirErr: whether server.WithDataDir(d) returns an error.
serveOptions(st, dirErr) ==
    LET v == String(st, "server")
        key == String(st, "remote-key")
        name == String(st, "name")
        d == String(st, "data")
        o1 == <<WithServer(v)>>
        o2 == Append(o1, WithKey(key))
        o3 == Append(o2, WithName(name))
        o4 == Append(o3, WithDataDir(d))
        o5 == Append(o4, WithToken)
    IN  IF v = "" THEN [err |-> ErrNoServer, options |-> <<>>]
        ELSE IF key = "" THEN [err |-> ErrNoKey, options |-> o1]
        ELSE IF name = "" THEN [err |-> ErrNoName, options |-> o2]
        ELSE IF d = "" THEN [err |-> ErrNoData, options |-> o3]
        ELSE IF dirErr THEN [err |-> ErrDataDir, options |-> o3]
        ELSE [err |-> NoError, options |-> o5]

(***************************************************************************)
(* The state machine.                                                      *)
(***************************************************************************)
Alive == exit = NoExit

Init ==
    /\ pc = "start"
    /\ exit = NoExit
    /\ err = NoError
    /\ args = [f \in FlagNames |-> Unset]
    /\ store = FlagDefaults
    /\ fileState = "unopened"
    /\ config = ZeroConfig
    /\ options = <<>>
    /\ newCalls = <<>>
    /\ ctx = "none"
    /\ runCalls = <<>>
    /\ runResult = "none"
    /\ lpc = "none"
    /\ s = <<>>
    /\ notified = {}
    /\ sigSent = 0
    /\ cancelCalls = 0
    /\ accessed = {}

\* App.Run parses the command line into the flag set, then calls Before.
ParseArgs ==
    /\ Alive /\ pc = "start"
    /\ \E a \in CommandLines :
        /\ args' = a
        /\ store' = ParsedFlags(a)
    /\ pc' = "before"
    /\ accessed' = {"store"}
    /\ UNCHANGED <<exit, err, fileState, config, options, newCalls, ctx,
                   runCalls, runResult, lpc, s, notified, sigSent, cancelCalls>>

\* app.Before = loadConfig; an error from it ends the process with status 1.
loadConfig ==
    /\ Alive /\ pc = "before"
    /\ \E fs \in FileSystems :
        LET r == loadConfigResult(store, fs) IN
        /\ store' = r.store
        /\ config' = r.config
        /\ fileState' = r.file
        /\ err' = r.err
        /\ accessed' = IF r.file = "unopened" THEN {"store"}
                       ELSE {"store", "file"}
        /\ IF r.err = NoError
           THEN pc' = "action" /\ exit' = exit
           ELSE pc' = "exit" /\ exit' = "1"
    /\ UNCHANGED <<args, options, newCalls, ctx, runCalls, runResult, lpc, s,
                   notified, sigSent, cancelCalls>>

\* app.Action = serve, lines 48-78.
serveBuild ==
    /\ Alive /\ pc = "action"
    /\ \E dirErr \in BOOLEAN :
        LET r == serveOptions(store, dirErr) IN
        /\ options' = r.options
        /\ err' = r.err
        /\ IF r.err = NoError
           THEN pc' = "new" /\ exit' = exit
           ELSE pc' = "exit" /\ exit' = "1"
    /\ accessed' = {"store"}
    /\ UNCHANGED <<args, store, fileState, config, newCalls, ctx, runCalls,
                   runResult, lpc, s, notified, sigSent, cancelCalls>>

\* Variant: the error of server.New does not end serve.
serveNew_ignoreError ==
    /\ Alive /\ pc = "new"
    /\ newCalls' = Append(newCalls, options)
    /\ \E newErr \in BOOLEAN :
        err' = IF newErr THEN ErrNew ELSE err
    /\ pc' = "withCancel"
    /\ accessed' = {}
    /\ UNCHANGED <<exit, args, store, fileState, config, options, ctx,
                   runCalls, runResult, lpc, s, notified, sigSent,
                   cancelCalls>>

\* serve, lines 80-87: server.New(options...) and its error check.
serveNew ==
    /\ Alive /\ pc = "new"
    /\ newCalls' = Append(newCalls, options)
    /\ \E newErr \in BOOLEAN :
        IF newErr
        THEN err' = ErrNew /\ pc' = "exit" /\ exit' = "1"
        ELSE err' = err /\ pc' = "withCancel" /\ exit' = exit
    /\ accessed' = {}
    /\ UNCHANGED <<args, store, fileState, config, options, ctx, runCalls,
                   runResult, lpc, s, notified, sigSent, cancelCalls>>

\* serve, line 89: context.WithCancel(context.Background()).
serveWithCancel ==
    /\ Alive /\ pc = "withCancel"
    /\ ctx' = "active"
    /\ pc' = "go"
    /\ accessed' = {}
    /\ UNCHANGED <<exit, err, args, store, fileState, config, options,
                   newCalls, runCalls, runResult, lpc, s, notified, sigSent,
                   cancelCalls>>

\* serve, line 91: the go statement starts the listener.
serveGo ==
    /\ Alive /\ pc = "go"
    /\ lpc' = "make"
    /\ pc' = "run"
    /\ accessed' = {}
    /\ UNCHANGED <<exit, err, args, store, fileState, config, options,
                   newCalls, ctx, runCalls, runResult, s, notified, sigSent,
                   cancelCalls>>

\* Variant: serve reads a setting from the store again on its way into Run.
serveRun_readsStore ==
    /\ Alive /\ pc = "run"
    /\ runCalls' = Append(runCalls, ctx)
    /\ pc' = "running"
    /\ accessed' = {"store"}
    /\ UNCHANGED <<exit, err, args, store, fileState, config, options,
                   newCalls, ctx, runResult, lpc, s, notified, sigSent,
                   cancelCalls>>

\* serve, line 102: srvr.Run(ctx) is entered and blocks.
serveRun ==
    /\ Alive /\ pc = "run"
    /\ runCalls' = Append(runCalls, ctx)
    /\ pc' = "running"
    /\ accessed' = {}
    /\ UNCHANGED <<exit, err, args, store, fileState, config, options,
                   newCalls, ctx, runResult, lpc, s, notified, sigSent,
                   cancelCalls>>

\* Variant: serve reports the cancellation as an exit error.
RunCancelled_returnsError ==
    /\ Alive /\ pc = "running"
    /\ ctx = "cancelled"
    /\ \E res \in {"nil", "error"} : runResult' = res
    /\ pc' = "exit"
    /\ exit' = "1"
    /\ accessed' = {}
    /\ UNCHANGED <<err, args, store, fileState, config, options, newCalls,
                   ctx, runCalls, lpc, s, notified, sigSent, cancelCalls>>

\* srvr.Run returns because it observed the cancelled context; serve
\* returns nil (line 103) and the process ends with status 0.
RunCancelled ==
    /\ Alive /\ pc = "running"
    /\ ctx = "cancelled"
    /\ \E res \in {"nil", "error"} : runResult' = res
    /\ pc' = "exit"
    /\ exit' = "0"
    /\ accessed' = {}
    /\ UNCHANGED <<err, args, store, fileState, config, options, newCalls,
                   ctx, runCalls, lpc, s, notified, sigSent, cancelCalls>>

\* Variant: serve turns an error returned by srvr.Run into an exit error.
RunFinished_checksResult ==
    /\ Alive /\ pc = "running"
    /\ \E res \in {"nil", "error"} :
        /\ runResult' = res
        /\ exit' = IF res = "error" THEN "1" ELSE "0"
    /\ pc' = "exit"
    /\ accessed' = {}
    /\ UNCHANGED <<err, args, store, fileState, config, options, newCalls,
                   ctx, runCalls, lpc, s, notified, sigSent, cancelCalls>>

\* Variant: serve cancels the context itself when Run returns (defer cancel()).
RunFinished_deferCancel ==
    /\ Alive /\ pc = "running"
    /\ \E res \in {"nil", "error"} : runResult' = res
    /\ pc' = "exit"
    /\ exit' = "0"
    /\ ctx' = "cancelled"
    /\ accessed' = {}
    /\ UNCHANGED <<err, args, store, fileState, config, options, newCalls,
                   runCalls, lpc, s, notified, sigSent, cancelCalls>>

\* srvr.Run returns because the agent finished on its own.
RunFinished ==
    /\ Alive /\ pc = "running"
    /\ \E res \in {"nil", "error"} : runResult' = res
    /\ pc' = "exit"
    /\ exit' = "0"
    /\ accessed' = {}
    /\ UNCHANGED <<err, args, store, fileState, config, options, newCalls,
                   ctx, runCalls, lpc, s, notified, sigSent, cancelCalls>>

\* Listener, lines 92-93: make(chan os.Signal, 1); signal.Notify(s, os.Interrupt).
listenNotifyInterrupt ==
    /\ Alive /\ lpc = "make"
    /\ notified' = notified \cup {"SIGINT"}
    /\ lpc' = "notifyTerm"
    /\ accessed' = {}
    /\ UNCHANGED <<pc, exit, err, args, store, fileState, config, options,
                   newCalls, ctx, runCalls, runResult, s, sigSent, cancelCalls>>

\* Listener, line 94: signal.Notify(s, syscall.SIGTERM).
listenNotifyTerm ==
    /\ Alive /\ lpc = "notifyTerm"
    /\ notified' = notified \cup {"SIGTERM"}
    /\ lpc' = "select"
    /\ accessed' = {}
    /\ UNCHANGED <<pc, exit, err, args, store, fileState, config, options,
                   newCalls, ctx, runCalls, runResult, s, sigSent, cancelCalls>>

\* Listener, lines 96-97: the select receives a signal from the channel.
listenReceive ==
    /\ Alive /\ lpc = "select"
    /\ Len(s) > 0
    /\ s' = Tail(s)
    /\ lpc' = "cancel"
    /\ accessed' = {}
    /\ UNCHANGED <<pc, exit, err, args, store, fileState, config, options,
                   newCalls, ctx, runCalls, runResult, notified, sigSent,
                   cancelCalls>>

\* Variant: the listener waits for the next signal after cancelling.
listenCancel_loop ==
    /\ Alive /\ lpc = "cancel"
    /\ ctx' = "cancelled"
    /\ cancelCalls' = cancelCalls + 1
    /\ lpc' = "select"
    /\ accessed' = {}
    /\ UNCHANGED <<pc, exit, err, args, store, fileState, config, options,
                   newCalls, runCalls, runResult, s, notified, sigSent>>

\* Variant: the listener ends on a signal without calling cancel().
listenCancel_forgotten ==
    /\ Alive /\ lpc = "cancel"
    /\ lpc' = "done"
    /\ accessed' = {}
    /\ UNCHANGED <<pc, exit, err, args, store, fileState, config, options,
                   newCalls, ctx, runCalls, runResult, s, notified, sigSent,
                   cancelCalls>>

\* Listener, lines 98-100: cancel(), then the goroutine ends.
listenCancel ==
    /\ Alive /\ lpc = "cancel"
    /\ ctx' = "cancelled"
    /\ cancelCalls' = cancelCalls + 1
    /\ lpc' = "done"
    /\ accessed' = {}
    /\ UNCHANGED <<pc, exit, err, args, store, fileState, config, options,
                   newCalls, runCalls, runResult, s, notified, sigSent>>

\* The operating system delivers a signal to the process. A signal
\* registered with signal.Notify is sent to the channel without blocking
\* (dropped when the buffer is full); one that is not registered has Go's
\* default effect for SIGINT and SIGTERM: the program exits.
Signal ==
    /\ Alive /\ pc # "start"
    /\ sigSent < MaxSignals
    /\ sigSent' = sigSent + 1
    /\ \E sig \in Signals :
        IF sig \in notified
        THEN /\ s' = IF Len(s) < ChanCap THEN Append(s, sig) ELSE s
             /\ UNCHANGED <<pc, exit>>
        ELSE /\ exit' = "signal"
             /\ UNCHANGED <<pc, s>>
    /\ accessed' = {}
    /\ UNCHANGED <<err, args, store, fileState, config, options, newCalls,
                   ctx, runCalls, runResult, lpc, notified, cancelCalls>>

Next ==
    \/ ParseArgs
    \/ loadConfig
    \/ serveBuild
    \/ serveNew
    \/ serveWithCancel
    \/ serveGo
    \/ serveRun
    \/ RunCancelled
    \/ RunFinished
    \/ listenNotifyInterrupt
    \/ listenNotifyTerm
    \/ listenReceive
    \/ listenCancel
    \/ Signal

Spec == Init /\ [][Next]_vars

\* The listener goroutine is scheduled fairly, and srvr.Run returns once it
\* observes a cancelled context.
Fairness ==
    /\ WF_vars(listenNotifyInterrupt)
    /\ WF_vars(listenNotifyTerm)
    /\ WF_vars(listenReceive)
    /\ WF_vars(listenCancel)
    /\ WF_vars(RunCancelled)

FairSpec == Spec /\ Fairness

(***************************************************************************)
(* Type invariant.                                                         *)
(***************************************************************************)
TypeOK ==
    /\ pc \in {"start", "before", "action", "new", "withCancel", "go", "run",
               "running", "exit"}
    /\ exit \in {NoExit, "0", "1", "signal"}
    /\ ctx \in {"none", "active", "cancelled"}
    /\ lpc \in {"none", "make", "notifyTerm", "select", "cancel", "done"}
    /\ Len(s) <= ChanCap
    /\ notified \subseteq Signals
    /\ sigSent \in 0..MaxSignals
    /\ accessed \subseteq {"store", "file"}

(***************************************************************************)
(* The lifecycle of the orchestrator, read off the position of the primary *)
(* flow and the state of the context.                                      *)
(***************************************************************************)
Lifecycle ==
    IF exit = "1" THEN "Failed"
    ELSE IF exit = "signal" THEN "Killed"
    ELSE IF pc \in {"start", "before", "action"} THEN "Unconfigured"
    ELSE IF pc = "new" THEN "Validated"
    ELSE IF pc \in {"withCancel", "go", "run"} THEN "Constructed"
    ELSE IF pc = "running"
    THEN (IF ctx = "cancelled" THEN "Cancelling" ELSE "Running")
    ELSE "Stopped"

(***************************************************************************)
(* Vocabulary of the properties.                                           *)
(***************************************************************************)
CheckOrder == <<"server", "remote-key", "name", "data">>
MissingError == <<ErrNoServer, ErrNoKey, ErrNoName, ErrNoData>>
OptionOrder == <<"WithServer", "WithKey", "WithName", "WithDataDir">>

\* loadConfig has returned (with or without an error).
ConfigLoaded == pc \notin {"start", "before"}

\* loadConfig has returned nil.
Resolved == ConfigLoaded /\ err \notin {ErrOpen, ErrParse}

\* serve has run its checks (lines 48-78).
ServeChecked == Resolved /\ pc # "action"

MissingIn(st) == {i \in DOMAIN CheckOrder : st[CheckOrder[i]] = ""}

FirstMissing(st) ==
    CHOOSE i \in MissingIn(st) : \A j \in MissingIn(st) : i <= j

FileField(cfg, name) ==
    CASE name = "server" -> cfg.Server
      [] name = "remote-key" -> cfg.RemoteKey
      [] name = "data" -> cfg.DataDir
      [] name = "name" -> cfg.Name

\* The user gave the setting neither by flag nor in the config file.
Omitted(name) ==
    /\ args[name] = Unset
    /\ fileState = "decoded" => FileField(config, name) = ""

EarlierPresent(i) == \A j \in DOMAIN CheckOrder : j < i => store[CheckOrder[j]] # ""

(***************************************************************************)
(* C1. Validation in serve is fail-fast in the order server, remote key,   *)
(* name, data directory: whenever some required value of the resolved      *)
(* store is empty, serve fails with status 1 with the error of the first   *)
(* empty one, has built the options of the settings before it only, and    *)
(* does not reach server.New.                                              *)
(***************************************************************************)
C1_FailFast ==
    (ServeChecked /\ MissingIn(store) # {}) =>
        LET i == FirstMissing(store) IN
        /\ err = MissingError[i]
        /\ exit = "1"
        /\ Len(options) = i - 1
        /\ \A j \in 1..Len(options) :
             options[j] = Option(OptionOrder[j], store[CheckOrder[j]])
        /\ newCalls = <<>>

\* Server and name both empty: only the server error is reported.
C1_Witness ==
    /\ ServeChecked
    /\ store["server"] = "" /\ store["remote-key"] # "" /\ store["name"] = ""
    /\ err = ErrNoServer /\ exit = "1"
    /\ options = <<>>

(***************************************************************************)
(* C2 as stated. For each of the four required settings, a start that      *)
(* gives it neither by flag nor in the config file, with all earlier       *)
(* settings present, ends in the missing-option error of that setting      *)
(* with status 1, with or without a config file.                           *)
(***************************************************************************)
C2_Original ==
    \A i \in DOMAIN CheckOrder :
        (ServeChecked /\ Omitted(CheckOrder[i]) /\ EarlierPresent(i)) =>
            (err = MissingError[i] /\ exit = "1")

(***************************************************************************)
(* C2 amended. The above holds for server, remote key and name, and for    *)
(* the data directory when a config file is given. With no config file     *)
(* and no --data flag the data directory is the flag's default,            *)
(* ~/.honeytrap-agent, and the start does not end in the error for the     *)
(* data directory.                                                         *)
(***************************************************************************)
C2_Amended ==
    /\ \A i \in DOMAIN CheckOrder :
        (/\ ServeChecked /\ Omitted(CheckOrder[i]) /\ EarlierPresent(i)
         /\ (CheckOrder[i] = "data" => fileState = "decoded")) =>
            (err = MissingError[i] /\ exit = "1")
    /\ (ServeChecked /\ args["data"] = Unset /\ fileState = "unopened") =>
            (store["data"] = DataDefault /\ err # ErrNoData)

C2_Witness ==
    /\ ServeChecked
    /\ args["data"] = Unset
    /\ fileState = "decoded" /\ config.DataDir = ""
    /\ EarlierPresent(Len(CheckOrder))
    /\ err = ErrNoData /\ exit = "1"

(***************************************************************************)
(* C3. File wins: after loadConfig has decoded a config file, the store    *)
(* entries server, remote-key, data and name are the file's four fields,   *)
(* whatever the flags were; with no config file they are the flags'        *)
(* values, or the defaults of the flags not given.                         *)
(***************************************************************************)
C3_FileWins ==
    Resolved =>
        /\ fileState \in {"decoded", "unopened"}
        /\ fileState = "decoded" <=> args["config"] # Unset
        /\ fileState = "decoded" =>
             \A name \in Settings : store[name] = FileField(config, name)
        /\ fileState = "unopened" =>
             \A name \in Settings :
                store[name] = IF args[name] = Unset THEN FlagDefaults[name]
                              ELSE args[name]

C3_Witness ==
    /\ Resolved /\ fileState = "decoded"
    /\ \A name \in Settings : args[name] = "a"
    /\ config = [Server |-> "b", RemoteKey |-> "b", DataDir |-> "a", Name |-> "b"]
    /\ store["name"] = "b" /\ store["data"] = "a"

(***************************************************************************)
(* C4. Overwrite with empty: after loadConfig has decoded a config file,   *)
(* every store entry whose field the file omits is the empty string, even  *)
(* when the flag (or the default of --data) was not empty.                 *)
(***************************************************************************)
C4_OverwriteWithEmpty ==
    (Resolved /\ fileState = "decoded") =>
        \A name \in Settings :
            FileField(config, name) = "" => store[name] = ""

\* A file with server only; remote key and name given by flag, data by default.
C4_Witness ==
    /\ Resolved /\ fileState = "decoded"
    /\ config = [Server |-> "b", RemoteKey |-> "", DataDir |-> "", Name |-> ""]
    /\ args["remote-key"] = "a" /\ args["name"] = "a" /\ args["data"] = Unset
    /\ store["remote-key"] = "" /\ store["name"] = "" /\ store["data"] = ""

(***************************************************************************)
(* C5. With an empty config path loadConfig returns nil, opens no file     *)
(* and leaves every entry of the store as the flags set it.                *)
(***************************************************************************)
C5_EmptyPathNoop ==
    (ConfigLoaded /\ args["config"] = Unset) =>
        /\ err \notin {ErrOpen, ErrParse}
        /\ fileState = "unopened"
        /\ config = ZeroConfig
        /\ store = ParsedFlags(args)

C5_Witness ==
    /\ pc = "action" /\ args["config"] = Unset
    /\ args["server"] = "a" /\ store["server"] = "a"
    /\ store["data"] = DataDefault

(***************************************************************************)
(* C6. When the config file cannot be opened or parsed, loadConfig fails   *)
(* with status 1 and the matching error, no store entry has been written,  *)
(* and serve is not entered: no option, no server.New, no context, no      *)
(* listener, no Run.                                                       *)
(***************************************************************************)
C6_ConfigFailureFatal ==
    /\ (ConfigLoaded /\ fileState = "openfailed") <=> err = ErrOpen
    /\ (ConfigLoaded /\ fileState = "parsefailed") <=> err = ErrParse
    /\ err \in {ErrOpen, ErrParse} =>
        /\ exit = "1" /\ pc = "exit"
        /\ store = ParsedFlags(args)
        /\ options = <<>> /\ newCalls = <<>>
        /\ ctx = "none" /\ lpc = "none" /\ notified = {}
        /\ runCalls = <<>>

\* A decode that failed after filling in part of the struct.
C6_Witness ==
    /\ err = ErrParse /\ exit = "1"
    /\ config.Server = "b" /\ config.Name = ""
    /\ args["server"] = "a" /\ store["server"] = "a"

(***************************************************************************)
(* C7. Every call of server.New gets exactly five options, in the order    *)
(* server, remote key, name, data directory, token, each built from the    *)
(* resolved store value.                                                   *)
(***************************************************************************)
C7_FiveOptions ==
    \A c \in 1..Len(newCalls) :
        newCalls[c] = << WithServer(store["server"]),
                         WithKey(store["remote-key"]),
                         WithName(store["name"]),
                         WithDataDir(store["data"]),
                         WithToken >>

C7_Witness ==
    /\ Len(newCalls) = 1
    /\ Len(newCalls[1]) = 5
    /\ store["server"] = "b" /\ store["data"] = "a"

(***************************************************************************)
(* C8. Every startup failure is terminal with status 1 and happens before  *)
(* the context is created, the listener is started and Run is called; and  *)
(* nothing happens after it (no retry).                                    *)
(***************************************************************************)
C8_StartupFailureTerminal ==
    /\ [](err # NoError =>
            /\ exit = "1" /\ pc = "exit"
            /\ ctx = "none" /\ lpc = "none" /\ notified = {}
            /\ runCalls = <<>> /\ cancelCalls = 0)
    /\ [][err # NoError => UNCHANGED vars]_vars

\* The latest startup failure: server.New returns an error.
C8_Witness ==
    /\ err = ErrNew /\ exit = "1"
    /\ Len(newCalls) = 1

(***************************************************************************)
(* C9 as stated. A termination signal delivered while Run is blocked       *)
(* leads to the cancellation of the context in every interleaving: after   *)
(* the delivery the process is alive and the cancellation is under way     *)
(* (the context is cancelled, the listener is about to call cancel, or     *)
(* the signal waits in the channel of a listener that will receive it).    *)
(***************************************************************************)
CancelUnderWay ==
    \/ ctx = "cancelled"
    \/ lpc = "cancel"
    \/ (Len(s) > 0 /\ lpc \in {"notifyTerm", "select"})

C9_SignalCancels ==
    [][(Alive /\ pc = "running" /\ sigSent' = sigSent + 1) =>
            (Alive' /\ CancelUnderWay')]_vars

(***************************************************************************)
(* C10. The context goes from not cancelled to cancelled at most once and  *)
(* never back; the listener calls cancel at most once and then exits; a    *)
(* further signal, delivered once the listener holds its registrations,    *)
(* stays in the channel or is dropped and changes neither the context nor  *)
(* the lifecycle state.                                                    *)
(***************************************************************************)
C10_CancelOnce ==
    /\ [](cancelCalls <= 1)
    /\ [](lpc = "done" <=> ctx = "cancelled")
    /\ [](ctx = "cancelled" => cancelCalls = 1)
    /\ [][ctx = "cancelled" => ctx' = "cancelled"]_vars
    /\ [][ctx = "active" => ctx' \in {"active", "cancelled"}]_vars
    /\ [][(/\ sigSent >= 1 /\ sigSent' = sigSent + 1
           /\ lpc \in {"select", "cancel", "done"}) =>
            /\ ctx' = ctx /\ lpc' = lpc /\ cancelCalls' = cancelCalls
            /\ Lifecycle' = Lifecycle
            /\ Len(s') <= ChanCap]_vars

\* Two more signals after the cancellation: one in the channel, one dropped.
C10_Witness ==
    /\ ctx = "cancelled" /\ lpc = "done" /\ cancelCalls = 1
    /\ sigSent = 3 /\ Len(s) = 1
    /\ pc = "running" /\ Alive

(***************************************************************************)
(* C11. Whenever srvr.Run has returned, whatever it returned, whether the  *)
(* context was cancelled or not and wherever the listener stands, serve    *)
(* has returned nil and the process has ended with status 0; and status 0  *)
(* is reached in no other way.                                             *)
(***************************************************************************)
C11_RunReturnExitsZero ==
    /\ runResult # "none" =>
        /\ exit = "0" /\ pc = "exit" /\ err = NoError
        /\ Len(runCalls) = 1
    /\ exit = "0" => runResult # "none"

\* Run returned an error on its own while the listener still waits.
C11_Witness ==
    /\ runResult = "error" /\ exit = "0"
    /\ ctx = "active" /\ lpc = "select" /\ s = <<>>

(***************************************************************************)
(* Transitions of the lifecycle.                                           *)
(***************************************************************************)
\* The transitions of the state machine as the specification draws it.
ClaimedTransitions ==
    { <<"Unconfigured", "Validated">>, <<"Validated", "Constructed">>,
      <<"Constructed", "Running">>, <<"Running", "Cancelling">>,
      <<"Cancelling", "Stopped">>, <<"Running", "Stopped">> }

\* A startup error ends the start from Unconfigured or Validated.
FailureTransitions ==
    { <<"Unconfigured", "Failed">>, <<"Validated", "Failed">> }

\* A signal the listener has not registered for yet ends the process.
KilledTransitions ==
    { <<from, "Killed">> :
        from \in {"Unconfigured", "Validated", "Constructed", "Running"} }

(***************************************************************************)
(* C12 as stated. The lifecycle changes only along Unconfigured ->         *)
(* Validated -> Constructed -> Running -> Cancelling -> Stopped, with      *)
(* Running -> Stopped (and the ends of a failed or killed start): in       *)
(* particular Cancelling is entered only from Running, the context being   *)
(* not cancelled when Run is invoked.                                      *)
(***************************************************************************)
C12_Original ==
    [][Lifecycle' # Lifecycle =>
        <<Lifecycle, Lifecycle'>> \in
            ClaimedTransitions \cup FailureTransitions \cup KilledTransitions]_vars

(***************************************************************************)
(* C12 amended. The lifecycle changes only along those transitions and     *)
(* Constructed -> Cancelling: the listener runs from the go statement on,  *)
(* so it may cancel the context before Run is invoked, and Run is then     *)
(* entered with a cancelled context. Run is entered with a cancelled       *)
(* context only after the listener has called cancel and ended.            *)
(***************************************************************************)
C12_Amended ==
    /\ [][Lifecycle' # Lifecycle =>
            <<Lifecycle, Lifecycle'>> \in
                ClaimedTransitions \cup FailureTransitions
                \cup KilledTransitions
                \cup { <<"Constructed", "Cancelling">> }]_vars
    /\ [][(Lifecycle = "Constructed" /\ Lifecycle' = "Cancelling") =>
            (pc = "run" /\ pc' = "running" /\ ctx = "cancelled"
             /\ lpc = "done" /\ runCalls' = <<"cancelled">>)]_vars

\* Run entered with the context already cancelled.
C12_Witness ==
    /\ pc = "running" /\ Alive
    /\ runCalls = <<"cancelled">>
    /\ Lifecycle = "Cancelling"

(***************************************************************************)
(* C13. Shutdown is live: with the listener scheduled fairly and a Run     *)
(* that returns once it observes the cancelled context, a signal received  *)
(* by the listener while the agent is Running leads to Stopped.            *)
(***************************************************************************)
SignalReceivedWhileRunning ==
    Alive /\ pc = "running" /\ ctx = "active" /\ lpc = "cancel"

C13_ShutdownLive == SignalReceivedWhileRunning ~> (Lifecycle = "Stopped")

\* Stopped after a cancellation that came while Run was blocked.
C13_Witness ==
    /\ Lifecycle = "Stopped" /\ exit = "0"
    /\ runCalls = <<"active">> /\ ctx = "cancelled" /\ lpc = "done"

(***************************************************************************)
(* C14. The listener is the sole writer of the context: the context is     *)
(* cancelled only by the listener's step from its select case, hence only  *)
(* after it received a signal; the primary flow never cancels it, so a     *)
(* Run that returns without any signal leaves it not cancelled at Stopped. *)
(***************************************************************************)
C14_ListenerSoleWriter ==
    /\ [](ctx = "cancelled" => (lpc = "done" /\ sigSent >= 1))
    /\ []((Lifecycle = "Stopped" /\ sigSent = 0) => ctx = "active")
    /\ [][(ctx = "active" /\ ctx' # ctx) =>
            (/\ lpc = "cancel" /\ lpc' = "done"
             /\ ctx' = "cancelled"
             /\ UNCHANGED <<pc, exit, runCalls, runResult>>)]_vars

\* Run returned on its own, no signal was delivered.
C14_Witness ==
    /\ Lifecycle = "Stopped" /\ exit = "0"
    /\ sigSent = 0 /\ ctx = "active" /\ lpc = "select"

(***************************************************************************)
(* C15. Every read and write of the configuration store and of the config  *)
(* file is a step of the primary flow taken before the listener is         *)
(* started; once the listener exists no step accesses them, and the only   *)
(* state the two flows share is the context: a step of the listener        *)
(* leaves the primary flow's state alone, and a step of the primary flow   *)
(* leaves the listener's state and the context alone.                      *)
(***************************************************************************)
ListenerStarted == lpc # "none"

C15_StoreConfinedToStartup ==
    /\ [](ListenerStarted => accessed = {})
    /\ [](accessed # {} =>
            (ctx = "none" /\ pc \in {"before", "action", "new", "exit"}))
    /\ [][ListenerStarted => UNCHANGED <<store, config, fileState, args>>]_vars
    /\ [][(ListenerStarted /\ lpc' # lpc) =>
            UNCHANGED <<pc, exit, err, options, newCalls, runCalls,
                        runResult>>]_vars
    /\ [][(ListenerStarted /\ pc' # pc) =>
            UNCHANGED <<lpc, s, notified, ctx, cancelCalls>>]_vars

\* Run is blocked and the listener waits, after a start that read a file.
C15_Witness ==
    /\ pc = "running" /\ Alive /\ lpc = "select"
    /\ fileState = "decoded" /\ store["server"] = "b"
    /\ accessed = {}

(***************************************************************************)
(* C16. The validator sees the store as loadConfig left it: a start with   *)
(* a decoded config file that omits a required field fails with status 1   *)
(* with the error of the first omitted field in check order, whatever the  *)
(* flags gave; and a field given in the config file only, its flag         *)
(* absent, does not fail the check of that field.                          *)
(***************************************************************************)
OmittedInFile ==
    {i \in DOMAIN CheckOrder : FileField(config, CheckOrder[i]) = ""}

C16_ValidatorSeesResolvedStore ==
    (ServeChecked /\ fileState = "decoded") =>
        /\ OmittedInFile # {} =>
            /\ \E i \in OmittedInFile :
                /\ \A j \in OmittedInFile : i <= j
                /\ err = MissingError[i]
            /\ exit = "1"
        /\ \A i \in DOMAIN CheckOrder :
            (args[CheckOrder[i]] = Unset /\ i \notin OmittedInFile) =>
                err # MissingError[i]

\* Every setting given by flag, the file omits the name: the start fails.
C16_Witness ==
    /\ ServeChecked /\ fileState = "decoded"
    /\ \A name \in Settings : args[name] = "a"
    /\ config = [Server |-> "b", RemoteKey |-> "b", DataDir |-> "b", Name |-> ""]
    /\ err = ErrNoName /\ exit = "1"

====
